---- MODULE Spec2Model ----
(***************************************************************************)
(* A model of bevy_mod_props: the tagged Value type (bool / f32 / Estr)    *)
(* with its conversions, views, comparisons and arithmetic, and the Props  *)
(* map built on it (src/props/mod.rs); the Links component, the link       *)
(* operations on an entity and the link commands queued on an              *)
(* EntityCommands (src/links); the lookups of entities by name and class   *)
(* through the Registry of a world (src/registry/ext.rs).                  *)
(*                                                                         *)
(* f32 payloads are modelled as IEEE-754 values without rounding: NaN, the *)
(* two infinities, the two zeros and exact fractions num/den.  Estr        *)
(* payloads and keys are modelled by their contents, a tuple of character  *)
(* codes.  An Entity is an opaque handle; a despawned handle is never      *)
(* spawned again.                                                          *)
(***************************************************************************)
EXTENDS Integers, Sequences, FiniteSets, TLC

VARIABLES props, old_props, val, old_val, op, ret, items, old_items,
          alive, old_alive, links, old_links, registry, old_registry,
          handles, remaining, queue, old_queue

\* the state of the Value and Props operations
propsVars == <<props, old_props, val, old_val, items, old_items>>

\* the state of the world: its entities, the Links component, the Registry,
\* the queue of deferred commands
worldVars ==
    <<alive, old_alive, links, old_links, registry, old_registry,
      handles, remaining, queue, old_queue>>

vars ==
    <<props, old_props, val, old_val, op, ret, items, old_items,
      alive, old_alive, links, old_links, registry, old_registry,
      handles, remaining, queue, old_queue>>

----------------------------------------------------------------------------
(* Bounds *)

\* largest numerator and denominator of a finite f32 the Value model holds
MaxNum == 2
\* longest Estr payload in the Value model
MaxStrLen == 2
\* number of distinct characters in Estr payloads
MaxChar == 2
\* number of distinct property names
MaxKeys == 2
\* largest magnitude of a number stored in a Props slot
MaxPropNum == 1
\* number of entity handles
MaxEntities == 2
\* number of distinct link names
MaxLinkNames == 2
\* number of distinct registry names, and of distinct classes
MaxRegNames == 1
\* most commands the command queue holds before it is applied
MaxQueue == 2

----------------------------------------------------------------------------
(* f32 *)

Abs(n) == IF n < 0 THEN -n ELSE n

RECURSIVE GCD(_, _)
GCD(a, b) == IF b = 0 THEN a ELSE GCD(b, a % b)

Fin(n, d) == [cls |-> "fin", num |-> n, den |-> d]
NegZero == [cls |-> "nzero", num |-> 0, den |-> 1]
PInf == [cls |-> "pinf", num |-> 0, den |-> 1]
NInf == [cls |-> "ninf", num |-> 0, den |-> 1]
NaN == [cls |-> "nan", num |-> 0, den |-> 1]
Zero == Fin(0, 1)
One == Fin(1, 1)

IsNaN(x) == x.cls = "nan"
IsInf(x) == x.cls \in {"pinf", "ninf"}
IsZero(x) == x.cls = "nzero" \/ (x.cls = "fin" /\ x.num = 0)
IsNeg(x) == x.cls \in {"nzero", "ninf"} \/ (x.cls = "fin" /\ x.num < 0)

SignedZero(neg) == IF neg THEN NegZero ELSE Zero
SignedInf(neg) == IF neg THEN NInf ELSE PInf

\* the fraction n/d (n # 0, d # 0) in lowest terms with a positive denominator
Norm(n, d) ==
    LET g == GCD(Abs(n), Abs(d))
        s == IF d < 0 THEN -1 ELSE 1
    IN  Fin((s * n) \div g, (s * d) \div g)

\* unary minus on f32
FNeg(x) ==
    CASE x.cls = "nan" -> NaN
      [] x.cls = "pinf" -> NInf
      [] x.cls = "ninf" -> PInf
      [] x.cls = "nzero" -> Zero
      [] x.cls = "fin" /\ x.num = 0 -> NegZero
      [] OTHER -> Fin(-x.num, x.den)

\* f32 + f32
FAdd(a, b) ==
    CASE IsNaN(a) \/ IsNaN(b) -> NaN
      [] IsInf(a) /\ IsInf(b) -> IF a = b THEN a ELSE NaN
      [] IsInf(a) -> a
      [] IsInf(b) -> b
      [] IsZero(a) /\ IsZero(b) -> SignedZero(IsNeg(a) /\ IsNeg(b))
      [] IsZero(a) -> b
      [] IsZero(b) -> a
      [] OTHER ->
           LET n == a.num * b.den + b.num * a.den
           IN  IF n = 0 THEN Zero ELSE Norm(n, a.den * b.den)

\* f32 - f32
FSub(a, b) == FAdd(a, FNeg(b))

\* f32 * f32
FMul(a, b) ==
    LET neg == IsNeg(a) # IsNeg(b)
    IN  CASE IsNaN(a) \/ IsNaN(b) -> NaN
          [] (IsInf(a) /\ IsZero(b)) \/ (IsZero(a) /\ IsInf(b)) -> NaN
          [] IsInf(a) \/ IsInf(b) -> SignedInf(neg)
          [] IsZero(a) \/ IsZero(b) -> SignedZero(neg)
          [] OTHER -> Norm(a.num * b.num, a.den * b.den)

\* f32 / f32
FDiv(a, b) ==
    LET neg == IsNeg(a) # IsNeg(b)
    IN  CASE IsNaN(a) \/ IsNaN(b) -> NaN
          [] IsInf(a) /\ IsInf(b) -> NaN
          [] IsZero(a) /\ IsZero(b) -> NaN
          [] IsInf(a) -> SignedInf(neg)
          [] IsInf(b) -> SignedZero(neg)
          [] IsZero(b) -> SignedInf(neg)
          [] IsZero(a) -> SignedZero(neg)
          [] OTHER -> Norm(a.num * b.den, a.den * b.num)

\* position of a non-NaN f32 on the extended real line, as a fraction
Rank(x) == CASE x.cls = "ninf" -> -1 [] x.cls = "pinf" -> 1 [] OTHER -> 0

\* f32::partial_cmp
FPartialCmp(a, b) ==
    CASE IsNaN(a) \/ IsNaN(b) -> <<>>
      [] Rank(a) < Rank(b) -> <<"Less">>
      [] Rank(a) > Rank(b) -> <<"Greater">>
      [] IsInf(a) -> <<"Equal">>
      [] a.num * b.den < b.num * a.den -> <<"Less">>
      [] a.num * b.den > b.num * a.den -> <<"Greater">>
      [] OTHER -> <<"Equal">>

\* f32 == f32
FEq(a, b) ==
    LET c == FPartialCmp(a, b) IN Len(c) = 1 /\ c[1] = "Equal"

\* the finite f32 values with numerator and denominator up to m
Fractions(m) ==
    {Fin(n, d) : n \in {k \in (-m)..m : k # 0}, d \in 1..m}
        \cap {Norm(n, d) : n \in {k \in (-m)..m : k # 0}, d \in 1..m}

F32Dom(m) == {NaN, PInf, NInf, NegZero, Zero} \cup Fractions(m)

InDom(x, m) == x.cls # "fin" \/ (Abs(x.num) <= m /\ x.den <= m)

----------------------------------------------------------------------------
(* Estr *)

EmptyStr == <<>>

RECURSIVE StrsOfLen(_)
StrsOfLen(n) ==
    IF n = 0 THEN {<<>>}
    ELSE {Append(s, c) : s \in StrsOfLen(n - 1), c \in 1..MaxChar}

StrDom(len) == UNION {StrsOfLen(n) : n \in 0..len}

\* Estr::partial_cmp: lexicographic order of the contents
RECURSIVE StrCmp(_, _)
StrCmp(a, b) ==
    CASE a = <<>> /\ b = <<>> -> "Equal"
      [] a = <<>> -> "Less"
      [] b = <<>> -> "Greater"
      [] Head(a) < Head(b) -> "Less"
      [] Head(a) > Head(b) -> "Greater"
      [] OTHER -> StrCmp(Tail(a), Tail(b))

EstrPartialCmp(a, b) == <<StrCmp(a, b)>>

BoolPartialCmp(a, b) ==
    CASE a = b -> <<"Equal">>
      [] b -> <<"Less">>
      [] OTHER -> <<"Greater">>

----------------------------------------------------------------------------
(* Option and the primitive types a Value is read as *)

None == <<>>
Some(x) == <<x>>
IsSome(o) == Len(o) = 1

Types == {"bool", "f32", "Estr"}

\* Default::default() of bool, f32 and Estr
DefaultOf(T) ==
    CASE T = "bool" -> FALSE
      [] T = "f32" -> Zero
      [] T = "Estr" -> EmptyStr

\* Option::unwrap_or_default
UnwrapOrDefault(o, T) == IF IsSome(o) THEN o[1] ELSE DefaultOf(T)

----------------------------------------------------------------------------
(* The Value type: tag names the active variant, and the field of that     *)
(* variant (b, n or s) holds its payload; the other two fields are unused  *)
(* and kept at a fixed filler so that equal Values are equal records.      *)
(* Records list their fields in the order TLC keeps them in.               *)

Bool(b) == [n |-> Zero, b |-> b, s |-> EmptyStr, tag |-> "Bool"]
Num(n) == [n |-> n, b |-> FALSE, s |-> EmptyStr, tag |-> "Num"]
Str(s) == [n |-> Zero, b |-> FALSE, s |-> s, tag |-> "Str"]

\* impl Default for Value
ValueDefault == Bool(FALSE)

\* From<bool>, From<f32>, From<Estr> for Value
ValueFrom(T, x) ==
    CASE T = "bool" -> Bool(x)
      [] T = "f32" -> Num(x)
      [] T = "Estr" -> Str(x)

\* a narrowing to bool that answers Some(false) for the other variants
OptionBoolFrom_NeverNone(value) ==
    IF value.tag = "Bool" THEN Some(value.b) ELSE Some(FALSE)

\* From<Value> for Option<bool>
OptionBoolFrom(value) == IF value.tag = "Bool" THEN Some(value.b) ELSE None
\* From<Value> for Option<f32>
OptionF32From(value) == IF value.tag = "Num" THEN Some(value.n) ELSE None
\* From<Value> for Option<Estr>
OptionEstrFrom(value) == IF value.tag = "Str" THEN Some(value.s) ELSE None

OptionFrom(T, value) ==
    CASE T = "bool" -> OptionBoolFrom(value)
      [] T = "f32" -> OptionF32From(value)
      [] T = "Estr" -> OptionEstrFrom(value)

\* From<Value> for bool, f32 and Estr
ValueInto(T, value) == UnwrapOrDefault(OptionFrom(T, value), T)

\* impl AsRef<bool|f32|Estr> for Value: the value the returned reference reads
AsRef(T, self) ==
    CASE T = "bool" -> IF self.tag = "Bool" THEN self.b ELSE FALSE
      [] T = "f32" -> IF self.tag = "Num" THEN self.n ELSE Zero
      [] T = "Estr" -> IF self.tag = "Str" THEN self.s ELSE EmptyStr

\* an as_mut that hands out a view without overwriting a mismatched variant
AsMut_NoOverwrite(T, self) == self

\* impl AsMut<bool|f32|Estr|Value> for Value: the Value after the call
AsMut(T, self) ==
    CASE T = "bool" -> IF self.tag = "Bool" THEN self ELSE Bool(FALSE)
      [] T = "f32" -> IF self.tag = "Num" THEN self ELSE Num(Zero)
      [] T = "Estr" -> IF self.tag = "Str" THEN self ELSE Str(EmptyStr)
      [] T = "Value" -> self

\* what the &mut T handed out by as_mut::<T> points at (slot has variant T)
MutView(T, slot) ==
    CASE T = "bool" -> slot.b
      [] T = "f32" -> slot.n
      [] T = "Estr" -> slot.s

\* `*r = x` through the &mut T handed out by as_mut::<T>
WriteView(T, slot, x) ==
    CASE T = "bool" -> [slot EXCEPT !.b = x]
      [] T = "f32" -> [slot EXCEPT !.n = x]
      [] T = "Estr" -> [slot EXCEPT !.s = x]

----------------------------------------------------------------------------
(* Equality and comparison *)

\* impl PartialEq<bool|f32|Estr> for Value, and the mirrored impls
ValueEqPrim(self, T, other) ==
    CASE T = "bool" -> IF self.tag = "Bool" THEN self.b = other ELSE FALSE
      [] T = "f32" -> IF self.tag = "Num" THEN FEq(self.n, other) ELSE FALSE
      [] T = "Estr" -> IF self.tag = "Str" THEN self.s = other ELSE FALSE

PrimEqValue(T, self, other) ==
    CASE T = "bool" -> IF other.tag = "Bool" THEN self = other.b ELSE FALSE
      [] T = "f32" -> IF other.tag = "Num" THEN FEq(self, other.n) ELSE FALSE
      [] T = "Estr" -> IF other.tag = "Str" THEN self = other.s ELSE FALSE

\* an equality that compares the representations, as a derived PartialEq on
\* the bit patterns would: NaN equals NaN
ValueEq_Bitwise(self, other) ==
    /\ self.tag = other.tag
    /\ self.b = other.b
    /\ self.s = other.s
    /\ self.n.cls = other.n.cls
    /\ self.n.num = other.n.num
    /\ self.n.den = other.n.den

\* impl PartialEq<Value> for Value
ValueEq(self, other) ==
    CASE self.tag = "Bool" /\ other.tag = "Bool" -> self.b = other.b
      [] self.tag = "Num" /\ other.tag = "Num" -> FEq(self.n, other.n)
      [] self.tag = "Str" /\ other.tag = "Str" -> self.s = other.s
      [] OTHER -> FALSE

\* impl PartialOrd<bool|f32|Estr> for Value, and the mirrored impls
ValueCmpPrim(self, T, that) ==
    CASE T = "bool" ->
           IF self.tag = "Bool" THEN BoolPartialCmp(self.b, that) ELSE None
      [] T = "f32" ->
           IF self.tag = "Num" THEN FPartialCmp(self.n, that) ELSE None
      [] T = "Estr" ->
           IF self.tag = "Str" THEN EstrPartialCmp(self.s, that) ELSE None

PrimCmpValue(T, self, other) ==
    CASE T = "bool" ->
           IF other.tag = "Bool" THEN BoolPartialCmp(self, other.b) ELSE None
      [] T = "f32" ->
           IF other.tag = "Num" THEN FPartialCmp(self, other.n) ELSE None
      [] T = "Estr" ->
           IF other.tag = "Str" THEN EstrPartialCmp(self, other.s) ELSE None

\* a comparison that orders Values of different variants by variant
ValuePartialCmp_AcrossVariants(self, other) ==
    CASE self.tag = "Bool" /\ other.tag = "Bool" ->
           BoolPartialCmp(self.b, other.b)
      [] self.tag = "Num" /\ other.tag = "Num" ->
           FPartialCmp(self.n, other.n)
      [] self.tag = "Str" /\ other.tag = "Str" ->
           EstrPartialCmp(self.s, other.s)
      [] self.tag = "Bool" -> Some("Less")
      [] other.tag = "Bool" -> Some("Greater")
      [] self.tag = "Num" -> Some("Less")
      [] OTHER -> Some("Greater")

\* impl PartialOrd<Value> for Value
ValuePartialCmp(self, other) ==
    CASE self.tag = "Bool" /\ other.tag = "Bool" ->
           BoolPartialCmp(self.b, other.b)
      [] self.tag = "Num" /\ other.tag = "Num" ->
           FPartialCmp(self.n, other.n)
      [] self.tag = "Str" /\ other.tag = "Str" ->
           EstrPartialCmp(self.s, other.s)
      [] OTHER -> None

----------------------------------------------------------------------------
(* Arithmetic *)

Ops == {"add", "sub", "mul", "div"}

\* an addition that treats a non-number on the left like multiplication does
AddValueF32_ZeroLeft(self, rhs) ==
    IF self.tag = "Num" THEN Num(FAdd(self.n, rhs)) ELSE Num(Zero)

\* impl Add<f32> for Value
AddValueF32(self, rhs) ==
    IF self.tag = "Num" THEN Num(FAdd(self.n, rhs)) ELSE Num(rhs)
\* impl Add<Value> for f32
AddF32Value(self, rhs) ==
    IF rhs.tag = "Num" THEN Num(FAdd(self, rhs.n)) ELSE Num(self)
\* impl Add<Value> for Value
AddValueValue(self, rhs) ==
    CASE self.tag = "Num" /\ rhs.tag = "Num" -> Num(FAdd(self.n, rhs.n))
      [] self.tag = "Num" -> Num(self.n)
      [] rhs.tag = "Num" -> Num(rhs.n)
      [] OTHER -> Num(Zero)

\* impl Sub<f32> for Value
SubValueF32(self, rhs) ==
    IF self.tag = "Num" THEN Num(FSub(self.n, rhs)) ELSE Num(FNeg(rhs))
\* impl Sub<Value> for f32
SubF32Value(self, rhs) ==
    IF rhs.tag = "Num" THEN Num(FSub(self, rhs.n)) ELSE Num(FNeg(self))
\* impl Sub<Value> for Value
SubValueValue(self, rhs) ==
    CASE self.tag = "Num" /\ rhs.tag = "Num" -> Num(FSub(self.n, rhs.n))
      [] self.tag = "Num" -> Num(self.n)
      [] rhs.tag = "Num" -> Num(FNeg(rhs.n))
      [] OTHER -> Num(Zero)

\* impl Mul<f32> for Value
MulValueF32(self, rhs) ==
    IF self.tag = "Num" THEN Num(FMul(self.n, rhs)) ELSE Num(Zero)
\* impl Mul<Value> for f32
MulF32Value(self, rhs) ==
    IF rhs.tag = "Num" THEN Num(FMul(self, rhs.n)) ELSE Num(Zero)
\* impl Mul<Value> for Value
MulValueValue(self, rhs) ==
    IF self.tag = "Num" /\ rhs.tag = "Num"
    THEN Num(FMul(self.n, rhs.n)) ELSE Num(Zero)

\* impl Div<f32> for Value
DivValueF32(self, rhs) ==
    IF self.tag = "Num" THEN Num(FDiv(self.n, rhs)) ELSE Num(Zero)
\* impl Div<Value> for f32
DivF32Value(self, rhs) ==
    IF rhs.tag = "Num" THEN Num(FDiv(self, rhs.n)) ELSE Num(self)
\* a division that treats a non-number divisor as zero, like the other operators
DivValueValue_ZeroDivisor(self, rhs) ==
    CASE self.tag = "Num" /\ rhs.tag = "Num" -> Num(FDiv(self.n, rhs.n))
      [] self.tag = "Num" -> Num(FDiv(self.n, Zero))
      [] rhs.tag = "Num" -> Num(Zero)
      [] OTHER -> Num(Zero)

\* impl Div<Value> for Value
DivValueValue(self, rhs) ==
    CASE self.tag = "Num" /\ rhs.tag = "Num" -> Num(FDiv(self.n, rhs.n))
      [] self.tag = "Num" -> Num(self.n)
      [] rhs.tag = "Num" -> Num(Zero)
      [] OTHER -> Num(Zero)

\* operator dispatch: `self o rhs` for the three operand shapes
ValueOpF32(o, self, rhs) ==
    CASE o = "add" -> AddValueF32(self, rhs)
      [] o = "sub" -> SubValueF32(self, rhs)
      [] o = "mul" -> MulValueF32(self, rhs)
      [] o = "div" -> DivValueF32(self, rhs)

F32OpValue(o, self, rhs) ==
    CASE o = "add" -> AddF32Value(self, rhs)
      [] o = "sub" -> SubF32Value(self, rhs)
      [] o = "mul" -> MulF32Value(self, rhs)
      [] o = "div" -> DivF32Value(self, rhs)

ValueOpValue(o, self, rhs) ==
    CASE o = "add" -> AddValueValue(self, rhs)
      [] o = "sub" -> SubValueValue(self, rhs)
      [] o = "mul" -> MulValueValue(self, rhs)
      [] o = "div" -> DivValueValue(self, rhs)

\* impl AddAssign/SubAssign/MulAssign/DivAssign<f32> for Value: self afterwards
OpAssignF32(o, self, rhs) ==
    CASE o = "add" -> AddValueF32(self, rhs)
      [] o = "sub" -> SubValueF32(self, rhs)
      [] o = "mul" -> MulValueF32(self, rhs)
      [] o = "div" -> DivValueF32(self, rhs)

\* an in-place operator that updates the number in place and so leaves a
\* Bool or Str as it is
OpAssignValue_KeepsNonNum(o, self, rhs) ==
    IF self.tag = "Num" THEN ValueOpValue(o, self, rhs) ELSE self

\* impl AddAssign/SubAssign/MulAssign/DivAssign<Value> for Value: self afterwards
OpAssignValue(o, self, rhs) ==
    CASE o = "add" -> AddValueValue(self, rhs)
      [] o = "sub" -> SubValueValue(self, rhs)
      [] o = "mul" -> MulValueValue(self, rhs)
      [] o = "div" -> DivValueValue(self, rhs)

----------------------------------------------------------------------------
(* Props: a BTreeMap<Estr, Value>, modelled as a function on the present keys *)

Keys == {<<c>> : c \in 1..MaxKeys}

EmptyMap == [k \in {} |-> ValueDefault]

\* BTreeMap::get
MapGet(m, k) == IF k \in DOMAIN m THEN Some(m[k]) ELSE None
\* BTreeMap::insert
MapInsert(m, k, v) == [x \in (DOMAIN m) \cup {k} |-> IF x = k THEN v ELSE m[x]]
\* BTreeMap::remove
MapRemove(m, k) == [x \in (DOMAIN m) \ {k} |-> m[x]]
\* BTreeMap::entry(k).or_default(): the map with the slot k present
MapEntryOrDefault(m, k) == IF k \in DOMAIN m THEN m ELSE MapInsert(m, k, ValueDefault)

\* the first key of a non-empty set in the order of Estr
MinKey(S) == CHOOSE k \in S : \A j \in S : StrCmp(k, j) \in {"Less", "Equal"}

\* the last key of a non-empty set in the order of Estr
MaxKey(S) == CHOOSE k \in S : \A j \in S : StrCmp(k, j) \in {"Greater", "Equal"}

\* a walk that visits the entries from the last key to the first
RECURSIVE MapIter_Descending(_)
MapIter_Descending(m) ==
    IF DOMAIN m = {} THEN <<>>
    ELSE LET k == MaxKey(DOMAIN m)
         IN  <<<<k, m[k]>>>> \o MapIter_Descending(MapRemove(m, k))

\* BTreeMap::iter: the entries (key, value), walked in the order of the keys
RECURSIVE MapIter(_)
MapIter(m) ==
    IF DOMAIN m = {} THEN <<>>
    ELSE LET k == MinKey(DOMAIN m)
         IN  <<<<k, m[k]>>>> \o MapIter(MapRemove(m, k))

\* BTreeMap::keys and BTreeMap::values: the same walk, one side of each entry
MapKeys(m) == LET it == MapIter(m) IN [i \in 1..Len(it) |-> it[i][1]]
MapValues(m) == LET it == MapIter(m) IN [i \in 1..Len(it) |-> it[i][2]]

\* Props::new
PropsNew == EmptyMap

\* a get that answers without looking the key up
PropsGet_NoLookup(properties, name, T) == DefaultOf(T)

\* Props::get::<T>
PropsGet(properties, name, T) ==
    LET found == MapGet(properties, name)
    IN  IF IsSome(found) THEN ValueInto(T, found[1]) ELSE DefaultOf(T)

\* a get_mut that only fills an absent slot and leaves a present one alone
PropsGetMut_InsertOnly(properties, name, T) ==
    IF name \in DOMAIN properties THEN properties
    ELSE MapInsert(properties, name,
                   IF T = "Value" THEN ValueDefault ELSE ValueFrom(T, DefaultOf(T)))

\* Props::get_mut::<T>: the map after the call
PropsGetMut(properties, name, T) ==
    LET m == MapEntryOrDefault(properties, name)
    IN  [m EXCEPT ![name] = AsMut(T, @)]

\* a set that keeps the value of a slot that is already present
PropsSet_KeepExisting(properties, name, value) ==
    IF name \in DOMAIN properties THEN properties
    ELSE MapInsert(properties, name, value)

\* Props::set
PropsSet(properties, name, value) == MapInsert(properties, name, value)

\* Props::with: the Props returned
PropsWith(properties, name, value) == PropsSet(properties, name, value)

\* a remove that resets the slot to the default Value and keeps the key
PropsRemove_KeepsKey(properties, name) ==
    IF name \in DOMAIN properties THEN MapInsert(properties, name, ValueDefault)
    ELSE properties

\* Props::remove
PropsRemove(properties, name) == MapRemove(properties, name)

\* Props::clear
PropsClear(properties) == EmptyMap

\* Props::iter, Props::keys, Props::values: the sequence the iterator yields
PropsIter(properties) == MapIter(properties)
PropsKeys(properties) == MapKeys(properties)
PropsValues(properties) == MapValues(properties)

\* static DEFAULT_VALUE
DEFAULT_VALUE == ValueDefault

\* impl Index for Props: the Value the returned reference reads
PropsIndex(properties, index) ==
    LET found == MapGet(properties, index)
    IN  IF IsSome(found) THEN found[1] ELSE DEFAULT_VALUE

\* impl IndexMut for Props: the map after the call
PropsIndexMut(properties, index) == PropsGetMut(properties, index, "Value")

----------------------------------------------------------------------------
(* Links: a UstrMap<EntityHashSet>, modelled as a function from the link   *)
(* names that have an entry to the set of their targets.  An Entity is an  *)
(* opaque handle.                                                          *)

Entities == 1..MaxEntities

\* the filler where a call or a result has no entity
NoEntity == 0

LinkNames == {<<c>> : c \in 1..MaxLinkNames}

\* Links::default
LinksDefault == [name \in {} |-> {}]

\* self.links.entry(name).or_default(): the map with an entry under name
LinkEntryOrDefault(l, name) ==
    IF name \in DOMAIN l THEN l
    ELSE [x \in (DOMAIN l) \cup {name} |-> IF x = name THEN {} ELSE l[x]]

\* a set that inserts the target without clearing the link first
LinksSet_NoClear(l, name, target) ==
    [LinkEntryOrDefault(l, name) EXCEPT ![name] = @ \cup {target}]

\* Links::set: clear the link, then insert the target
LinksSet(l, name, target) ==
    [LinkEntryOrDefault(l, name) EXCEPT ![name] = {target}]

\* Links::add
LinksAdd(l, name, target) ==
    [LinkEntryOrDefault(l, name) EXCEPT ![name] = @ \cup {target}]

\* Links::remove
LinksRemove(l, name, target) ==
    [LinkEntryOrDefault(l, name) EXCEPT ![name] = @ \ {target}]

\* Links::clear
LinksClear(l, name) ==
    [LinkEntryOrDefault(l, name) EXCEPT ![name] = {}]

\* an is_linked that answers for the whole Links, whatever the name
LinksIsLinked_AnyName(l, name, entity) ==
    \E x \in DOMAIN l : entity \in l[x]

\* Links::is_linked
LinksIsLinked(l, name, entity) ==
    IF name \in DOMAIN l THEN entity \in l[name] ELSE FALSE

\* Links::get: entities.iter().next() of a hash set is whichever member the
\* set yields first; the results the call can have
LinksGet(l, name) ==
    IF name \in DOMAIN l /\ l[name] # {}
    THEN {Some(target) : target \in l[name]}
    ELSE {None}

\* Links::list
LinksList(l, name) == IF name \in DOMAIN l THEN l[name] ELSE {}

----------------------------------------------------------------------------
(* The Links component of an entity (links/ext.rs).  No operation on an    *)
(* entity reads or writes the Links of another entity, so the model keeps  *)
(* the Links component of one entity at a time: links is a function from   *)
(* the entity that holds the component, if any, to its Links.              *)

NoLinks == [e \in {} |-> LinksDefault]

\* self.get::<Links>()
GetLinks(components, entity) ==
    IF entity \in DOMAIN components THEN Some(components[entity]) ELSE None

\* self.entry::<Links>().or_default(): the components with a Links on entity
EntryLinksOrDefault(components, entity) ==
    IF entity \in DOMAIN components THEN components
    ELSE [x \in (DOMAIN components) \cup {entity} |->
            IF x = entity THEN LinksDefault ELSE components[x]]

\* LinksExt::get_linked: the results the call can have
GetLinked(components, entity, name) ==
    LET c == GetLinks(components, entity)
    IN  IF IsSome(c) THEN LinksGet(c[1], name) ELSE {None}

\* LinksExt::list_linked
ListLinked(components, entity, name) ==
    LET c == GetLinks(components, entity)
    IN  IF IsSome(c) THEN LinksList(c[1], name) ELSE {}

\* LinksExt::is_linked
IsLinked(components, entity, name, target) ==
    LET c == GetLinks(components, entity)
    IN  IF IsSome(c) THEN LinksIsLinked(c[1], name, target) ELSE FALSE

\* LinksCommandsExt for EntityWorldMut: the components after the call
SetLink(components, entity, name, target) ==
    [EntryLinksOrDefault(components, entity) EXCEPT
        ![entity] = LinksSet(@, name, target)]

AddLink(components, entity, name, target) ==
    [EntryLinksOrDefault(components, entity) EXCEPT
        ![entity] = LinksAdd(@, name, target)]

RemoveLink(components, entity, name, target) ==
    [EntryLinksOrDefault(components, entity) EXCEPT
        ![entity] = LinksRemove(@, name, target)]

ClearLinks(components, entity, name) ==
    [EntryLinksOrDefault(components, entity) EXCEPT
        ![entity] = LinksClear(@, name)]

\* World::get_entity_mut(entity).ok(): the entity, if it is in the world
GetEntity(entities, entity) ==
    IF entity \in entities THEN Some(entity) ELSE None

\* a follow that hands out the linked handle without looking it up
FollowLink_NoFetch(entities, components, entity, name) ==
    GetLinked(components, entity, name)

\* LinksFollowExt::follow_link: the results the call can have
FollowLink(entities, components, entity, name) ==
    {IF IsSome(target) THEN GetEntity(entities, target[1]) ELSE None :
        target \in GetLinked(components, entity, name)}

\* World::get_entity_mut(&targets): Ok with one EntityMut per handle when
\* every handle is in the world, Err otherwise
GetEntities(entities, targets) ==
    IF targets \subseteq entities THEN Some(targets) ELSE None

\* an explore that keeps the targets that exist
ExploreLink_Partial(entities, components, entity, name) ==
    ListLinked(components, entity, name) \cap entities

\* LinksFollowExt::explore_link: the keys of the map returned
ExploreLink(entities, components, entity, name) ==
    LET targets == ListLinked(components, entity, name)
        fetched == GetEntities(entities, targets)
    IN  IF IsSome(fetched) THEN fetched[1] ELSE {}

----------------------------------------------------------------------------
(* Registry: a resource that maps a unique name to one entity and a class  *)
(* to a set of entities.                                                   *)

RegNames == {<<c>> : c \in 1..MaxRegNames}

Classes == {<<c>> : c \in 1..MaxRegNames}

\* Registry::default
RegistryDefault ==
    [names |-> [name \in {} |-> NoEntity], classes |-> [class \in {} |-> {}]]

\* the registry after entity is given the name: the last write wins
RegistrySetName(reg, name, entity) ==
    [reg EXCEPT !.names =
        [x \in (DOMAIN reg.names) \cup {name} |->
            IF x = name THEN entity ELSE reg.names[x]]]

\* the registry after entity is given the class
RegistrySetClass(reg, class, entity) ==
    [reg EXCEPT !.classes =
        [x \in (DOMAIN reg.classes) \cup {class} |->
            IF x = class THEN (IF x \in DOMAIN reg.classes THEN reg.classes[x] ELSE {})
                                \cup {entity}
            ELSE reg.classes[x]]]

\* Registry::lookup_name: Some(entity) for Ok(entity), None for
\* Err(EntityNotFoundError)
RegistryLookupName(reg, name) ==
    IF name \in DOMAIN reg.names THEN Some(reg.names[name]) ELSE None

\* static EMPTY_SET
EMPTY_SET == {}

\* Registry::lookup_class
RegistryLookupClass(reg, class) ==
    IF class \in DOMAIN reg.classes THEN reg.classes[class] ELSE EMPTY_SET

\* the Registry resource of the world, made if the world has none
ResourceOrDefault(resource) ==
    IF IsSome(resource) THEN resource[1] ELSE RegistryDefault

----------------------------------------------------------------------------
(* Lookups through the world (registry/ext.rs) *)

\* RegistryLookupExt::lookup_name, on World and on DeferredWorld
LookupName(resource, name) ==
    IF IsSome(resource) THEN RegistryLookupName(resource[1], name) ELSE None

\* RegistryLookupExt::lookup_class, on World and on DeferredWorld
LookupClass(resource, class) ==
    IF IsSome(resource) THEN RegistryLookupClass(resource[1], class) ELSE EMPTY_SET

\* the result of a lookup by name: what it is and, if Ok, the entity
Found(kind, entity) == <<kind, entity>>

\* an entity_named that returns the registered handle without fetching it
EntityNamed_NoFetch(entities, resource, name, fetchError) ==
    LET entity == LookupName(resource, name)
    IN  IF IsSome(entity) THEN Found("Ok", entity[1])
        ELSE Found("EntityNotFound", NoEntity)

\* RegistryLookupExt::entity_named (fetchError: EntityNotSpawned) and
\* RegistryLookupMutExt / RegistryLookupDeferredExt::entity_mut_named
\* (fetchError: EntityMutableFetchError)
EntityNamed(entities, resource, name, fetchError) ==
    LET entity == LookupName(resource, name)
    IN  IF ~IsSome(entity) THEN Found("EntityNotFound", NoEntity)
        ELSE IF entity[1] \in entities THEN Found("Ok", entity[1])
        ELSE Found(fetchError, NoEntity)

\* the three iterators over the entities of a class: EntityClassIter,
\* EntityClassMutIter, EntityClassDeferredIter
ClassIters == {"entity_class", "entity_mut_class", "deferred_entity_mut_class"}

\* EntityClassIter::next, EntityClassMutIter::next and
\* EntityClassDeferredIter::next on the handle the set iterator yields:
\* World::entity and fetch_mut(..).unwrap() panic when the entity is not in
\* the world
ClassIterNext(entities, entity) ==
    IF entity \in entities THEN Found("Some", entity) ELSE Found("panic", NoEntity)

----------------------------------------------------------------------------
(* Inputs *)

\* the primitive values of type T offered to the Props operations
PropPrims(T) ==
    CASE T = "bool" -> BOOLEAN
      [] T = "f32" -> {Fin(n, 1) : n \in 0..MaxPropNum} \cup {NaN}
      [] T = "Estr" -> {EmptyStr, <<1>>}

\* the primitive values of type T offered to the Value operations
Prims(T) ==
    CASE T = "bool" -> BOOLEAN
      [] T = "f32" -> F32Dom(MaxNum)
      [] T = "Estr" -> StrDom(MaxStrLen)

ValueDom == UNION {{ValueFrom(T, x) : x \in Prims(T)} : T \in Types}

\* a Value whose number, if it holds one, stays within the modelled range
ValueInDom(v, m) == v.tag # "Num" \/ InDom(v.n, m)

----------------------------------------------------------------------------
(* The record of the last call: its arguments and its result.  A primitive *)
(* argument or result of type T is stored in the field of its type (b, n   *)
(* or s), the other fields at a fixed filler.                              *)

Prim(T, x) ==
    [n |-> IF T = "f32" THEN x ELSE Zero,
     b |-> IF T = "bool" THEN x ELSE FALSE,
     s |-> IF T = "Estr" THEN x ELSE EmptyStr]

\* the primitive of type T stored in c
PrimGet(T, c) ==
    CASE T = "bool" -> c.b
      [] T = "f32" -> c.n
      [] T = "Estr" -> c.s

NoPrim == Prim("bool", FALSE)

NoKey == <<>>

\* a call `name` on key `key` at type `ty` with operator `o`, primitive
\* argument x (of type ty) and Value argument w
Op(name, key, ty, o, x, w) ==
    [x |-> x, o |-> o, name |-> name, target |-> NoEntity, entity |-> NoEntity,
     key |-> key, ty |-> ty, w |-> w]

Call(name, key, ty) == Op(name, key, ty, "-", NoPrim, ValueDefault)
CallX(name, key, ty, x) == Op(name, key, ty, "-", Prim(ty, x), ValueDefault)

Unit ==
    [n |-> Zero, b |-> FALSE, s |-> EmptyStr, tag |-> "-",
     ty |-> "unit", some |-> FALSE, ord |-> "-"]

\* a result of primitive type T
RetPrim(T, x) ==
    LET c == Prim(T, x)
    IN  [Unit EXCEPT !.ty = T, !.some = TRUE, !.b = c.b, !.n = c.n, !.s = c.s]

\* a result of type Value
RetValue(v) ==
    [Unit EXCEPT !.ty = "Value", !.some = TRUE, !.tag = v.tag,
                 !.b = v.b, !.n = v.n, !.s = v.s]

\* a result of type Option<T>
RetOption(T, o) ==
    IF IsSome(o) THEN [RetPrim(T, o[1]) EXCEPT !.ty = "Option", !.tag = T]
    ELSE [Unit EXCEPT !.ty = "Option", !.tag = T]

\* a result of type Option<Ordering>
RetOrdering(o) ==
    IF IsSome(o) THEN [Unit EXCEPT !.ty = "Ordering", !.some = TRUE, !.ord = o[1]]
    ELSE [Unit EXCEPT !.ty = "Ordering"]

\* a call `name` on an entity, with a link, registry or class name `key` and
\* a target entity
EntityCall(name, entity, key, target) ==
    [Call(name, key, "-") EXCEPT !.entity = entity, !.target = target]

\* a result of type Option<Entity>, Option<EntityWorldMut>, EntityHashSet or
\* EntityHashMap: the entities themselves are held in handles
RetEntities(ty, some) == [Unit EXCEPT !.ty = ty, !.some = some]

\* the entities of an Option
OptionSet(o) == IF IsSome(o) THEN {o[1]} ELSE {}

\* no call in progress: the last result was consumed and its borrow released
Idle == Call("idle", NoKey, "-")

----------------------------------------------------------------------------
(* Operations on a Props.  A call is made when no result is outstanding,   *)
(* runs to completion in one step and leaves its arguments in op, its      *)
(* result in ret and the map it started from in old_props; Return ends the *)
(* borrow of the result.                                                   *)

\* World::new: no entity, no component, no resource
NoWorld ==
    /\ alive = {}
    /\ old_alive = {}
    /\ links = NoLinks
    /\ old_links = NoLinks
    /\ registry = None
    /\ old_registry = None
    /\ handles = {}
    /\ remaining = {}
    /\ queue = <<>>
    /\ old_queue = <<>>

Init ==
    /\ props = PropsNew
    /\ old_props = PropsNew
    /\ val = ValueDefault
    /\ old_val = ValueDefault
    /\ op = Idle
    /\ ret = Unit
    /\ items = <<>>
    /\ old_items = None
    /\ NoWorld

PropsStep(call, properties, result) ==
    /\ props' = properties
    /\ old_props' = props
    /\ op' = call
    /\ ret' = result
    /\ UNCHANGED <<val, old_val, items, old_items>>
    /\ UNCHANGED worldVars

\* props.set(k, x)
Set(k, T, x) ==
    /\ op.name = "idle"
    /\ PropsStep(CallX("set", k, T, x), PropsSet(props, k, ValueFrom(T, x)), Unit)

\* props = props.with(k, x)
With(k, T, x) ==
    /\ op.name = "idle"
    /\ PropsStep(CallX("with", k, T, x), PropsWith(props, k, ValueFrom(T, x)), Unit)

\* props.get::<T>(k)
Get(k, T) ==
    /\ op.name = "idle"
    /\ PropsStep(Call("get", k, T), props, RetPrim(T, PropsGet(props, k, T)))

\* props.get_mut::<T>(k)
GetMut(k, T) ==
    LET after == PropsGetMut(props, k, T)
    IN  /\ op.name = "idle"
        /\ PropsStep(Call("get_mut", k, T), after, RetPrim(T, MutView(T, after[k])))

\* *props.get_mut::<T>(k) = x
GetMutWrite(k, T, x) ==
    LET after == PropsGetMut(props, k, T)
    IN  /\ op.name = "idle"
        /\ PropsStep(CallX("get_mut_write", k, T, x),
                     [after EXCEPT ![k] = WriteView(T, @, x)], Unit)

\* props.remove(k)
Remove(k) ==
    /\ op.name = "idle"
    /\ PropsStep(Call("remove", k, "-"), PropsRemove(props, k), Unit)

\* props.clear()
Clear ==
    /\ op.name = "idle"
    /\ PropsStep(Call("clear", NoKey, "-"), PropsClear(props), Unit)

\* props[k] == x, for a primitive x of type T
IndexEq(k, T, x) ==
    /\ op.name = "idle"
    /\ PropsStep(CallX("index_eq", k, T, x), props,
                 RetPrim("bool", ValueEqPrim(PropsIndex(props, k), T, x)))

\* props[k] += x and props[k] -= x, for a number x
IndexOpAssign(k, o, x) ==
    LET slot == PropsIndexMut(props, k)
        after == [slot EXCEPT ![k] = OpAssignF32(o, @, x)]
    IN  /\ op.name = "idle"
        /\ ValueInDom(after[k], MaxPropNum)
        /\ PropsStep(Op("index_op_assign", k, "f32", o, Prim("f32", x), ValueDefault),
                     after, Unit)

\* an iteration collected into a sequence.  An iterator borrows the Props
\* shared, so another one may be made while the sequence of the last iter()
\* is still held: old_items then keeps that sequence.
IterStep(name, result) ==
    /\ op.name \in {"idle", "iter"}
    /\ op' = Call(name, NoKey, "-")
    /\ ret' = Unit
    /\ items' = result
    /\ old_items' = IF op.name = "iter" THEN Some(items) ELSE None
    /\ old_props' = props
    /\ UNCHANGED <<props, val, old_val>>
    /\ UNCHANGED worldVars

\* props.iter().collect()
Iter == IterStep("iter", PropsIter(props))

\* props.keys().collect()
KeysCall == IterStep("keys", PropsKeys(props))

\* props.values().collect()
ValuesCall == IterStep("values", PropsValues(props))

\* the caller is done with the result of the last call
Return ==
    /\ op.name # "idle"
    /\ op' = Idle
    /\ ret' = Unit
    /\ items' = <<>>
    /\ old_items' = None
    /\ old_props' = props
    /\ old_val' = val
    /\ ret.ty # "panic"
    /\ old_alive' = alive
    /\ old_links' = links
    /\ old_registry' = registry
    /\ handles' = {}
    /\ remaining' = {}
    /\ old_queue' = queue
    /\ UNCHANGED <<props, val, alive, links, registry, queue>>

Next ==
    \/ \E k \in Keys, T \in Types : \E x \in PropPrims(T) : Set(k, T, x)
    \/ \E k \in Keys, T \in Types : \E x \in PropPrims(T) : With(k, T, x)
    \/ \E k \in Keys, T \in Types : Get(k, T)
    \/ \E k \in Keys, T \in Types : GetMut(k, T)
    \/ \E k \in Keys, T \in Types : \E x \in PropPrims(T) : GetMutWrite(k, T, x)
    \/ \E k \in Keys : Remove(k)
    \/ Clear
    \/ \E k \in Keys, T \in Types : \E x \in PropPrims(T) : IndexEq(k, T, x)
    \/ \E k \in Keys, o \in {"add", "sub"} :
            \E x \in PropPrims("f32") : IndexOpAssign(k, o, x)
    \/ Iter
    \/ KeysCall
    \/ ValuesCall
    \/ Return

Spec == Init /\ [][Next]_vars

----------------------------------------------------------------------------
(* Operations on a single Value, held in val.  Each call leaves the Value  *)
(* it started from in old_val.                                             *)

InitValue ==
    /\ props = PropsNew
    /\ old_props = PropsNew
    /\ val \in ValueDom
    /\ old_val = val
    /\ op = Idle
    /\ ret = Unit
    /\ items = <<>>
    /\ old_items = None
    /\ NoWorld

ValueStep(call, value, result) ==
    /\ ValueInDom(value, MaxNum)
    /\ val' = value
    /\ old_val' = val
    /\ op' = call
    /\ ret' = result
    /\ UNCHANGED <<props, old_props, items, old_items>>
    /\ UNCHANGED worldVars

\* val = Value::from(x)
From(T, x) ==
    /\ op.name = "idle"
    /\ ValueStep(CallX("from", NoKey, T, x), ValueFrom(T, x), Unit)

\* Option::<T>::from(val)
IntoOption(T) ==
    /\ op.name = "idle"
    /\ ValueStep(Call("into_option", NoKey, T), val, RetOption(T, OptionFrom(T, val)))

\* T::from(val)
Into(T) ==
    /\ op.name = "idle"
    /\ ValueStep(Call("into", NoKey, T), val, RetPrim(T, ValueInto(T, val)))

\* AsRef::<T>::as_ref(&val)
AsRefCall(T) ==
    /\ op.name = "idle"
    /\ ValueStep(Call("as_ref", NoKey, T), val, RetPrim(T, AsRef(T, val)))

\* AsMut::<T>::as_mut(&mut val)
AsMutCall(T) ==
    LET slot == AsMut(T, val)
    IN  /\ op.name = "idle"
        /\ ValueStep(Call("as_mut", NoKey, T), slot, RetPrim(T, MutView(T, slot)))

\* *AsMut::<T>::as_mut(&mut val) = x
AsMutWrite(T, x) ==
    /\ op.name = "idle"
    /\ ValueStep(CallX("as_mut_write", NoKey, T, x),
                 WriteView(T, AsMut(T, val), x), Unit)

\* *AsMut::<f32>::as_mut(&mut val) += x
AsMutAddAssign(x) ==
    LET slot == AsMut("f32", val)
    IN  /\ op.name = "idle"
        /\ ValueStep(CallX("as_mut_add_assign", NoKey, "f32", x),
                     WriteView("f32", slot, FAdd(MutView("f32", slot), x)), Unit)

\* val o w, for a Value w
BinValueValue(o, w) ==
    /\ op.name = "idle"
    /\ ValueStep(Op("bin_value_value", NoKey, "Value", o, NoPrim, w),
                 val, RetValue(ValueOpValue(o, val, w)))

\* val o x, for a number x
BinValueF32(o, x) ==
    /\ op.name = "idle"
    /\ ValueStep(Op("bin_value_f32", NoKey, "f32", o, Prim("f32", x), ValueDefault),
                 val, RetValue(ValueOpF32(o, val, x)))

\* x o val, for a number x
BinF32Value(o, x) ==
    /\ op.name = "idle"
    /\ ValueStep(Op("bin_f32_value", NoKey, "f32", o, Prim("f32", x), ValueDefault),
                 val, RetValue(F32OpValue(o, x, val)))

\* val o= w, for a Value w
AssignValue(o, w) ==
    /\ op.name = "idle"
    /\ ValueStep(Op("assign_value", NoKey, "Value", o, NoPrim, w),
                 OpAssignValue(o, val, w), Unit)

\* val o= x, for a number x
AssignF32(o, x) ==
    /\ op.name = "idle"
    /\ ValueStep(Op("assign_f32", NoKey, "f32", o, Prim("f32", x), ValueDefault),
                 OpAssignF32(o, val, x), Unit)

\* val == w, for a Value w
EqValue(w) ==
    /\ op.name = "idle"
    /\ ValueStep(Op("eq_value", NoKey, "Value", "-", NoPrim, w),
                 val, RetPrim("bool", ValueEq(val, w)))

\* val == x, for a primitive x of type T
EqPrim(T, x) ==
    /\ op.name = "idle"
    /\ ValueStep(CallX("eq_prim", NoKey, T, x), val,
                 RetPrim("bool", ValueEqPrim(val, T, x)))

\* x == val, for a primitive x of type T
PrimEqCall(T, x) ==
    /\ op.name = "idle"
    /\ ValueStep(CallX("prim_eq", NoKey, T, x), val,
                 RetPrim("bool", PrimEqValue(T, x, val)))

\* val.partial_cmp(&w), for a Value w
CmpValue(w) ==
    /\ op.name = "idle"
    /\ ValueStep(Op("cmp_value", NoKey, "Value", "-", NoPrim, w),
                 val, RetOrdering(ValuePartialCmp(val, w)))

\* val.partial_cmp(&x), for a primitive x of type T
CmpPrim(T, x) ==
    /\ op.name = "idle"
    /\ ValueStep(CallX("cmp_prim", NoKey, T, x), val,
                 RetOrdering(ValueCmpPrim(val, T, x)))

\* x.partial_cmp(&val), for a primitive x of type T
PrimCmpCall(T, x) ==
    /\ op.name = "idle"
    /\ ValueStep(CallX("prim_cmp", NoKey, T, x), val,
                 RetOrdering(PrimCmpValue(T, x, val)))

NextValue ==
    \/ \E T \in Types : \E x \in Prims(T) : From(T, x)
    \/ \E T \in Types : IntoOption(T)
    \/ \E T \in Types : Into(T)
    \/ \E T \in Types : AsRefCall(T)
    \/ \E T \in Types : AsMutCall(T)
    \/ \E T \in Types : \E x \in Prims(T) : AsMutWrite(T, x)
    \/ \E x \in Prims("f32") : AsMutAddAssign(x)
    \/ \E o \in Ops, w \in ValueDom : BinValueValue(o, w)
    \/ \E o \in Ops, x \in Prims("f32") : BinValueF32(o, x)
    \/ \E o \in Ops, x \in Prims("f32") : BinF32Value(o, x)
    \/ \E o \in Ops, w \in ValueDom : AssignValue(o, w)
    \/ \E o \in Ops, x \in Prims("f32") : AssignF32(o, x)
    \/ \E w \in ValueDom : EqValue(w)
    \/ \E T \in Types : \E x \in Prims(T) : EqPrim(T, x)
    \/ \E T \in Types : \E x \in Prims(T) : PrimEqCall(T, x)
    \/ \E w \in ValueDom : CmpValue(w)
    \/ \E T \in Types : \E x \in Prims(T) : CmpPrim(T, x)
    \/ \E T \in Types : \E x \in Prims(T) : PrimCmpCall(T, x)
    \/ Return

SpecValue == InitValue /\ [][NextValue]_vars

----------------------------------------------------------------------------
(* Operations on the Links of the entities of a world.  The world starts   *)
(* with every entity handle spawned and no Links component; an entity, and *)
(* its component with it, leaves the world when it is despawned.           *)

InitLinks ==
    /\ props = PropsNew
    /\ old_props = PropsNew
    /\ val = ValueDefault
    /\ old_val = ValueDefault
    /\ items = <<>>
    /\ old_items = None
    /\ op = Idle
    /\ ret = Unit
    /\ alive = Entities
    /\ old_alive = Entities
    /\ links = NoLinks
    /\ old_links = NoLinks
    /\ registry = None
    /\ old_registry = None
    /\ handles = {}
    /\ remaining = {}
    /\ queue = <<>>
    /\ old_queue = <<>>

LinksStep(call, entities, components, result, entitiesFound) ==
    /\ alive' = entities
    /\ old_alive' = alive
    /\ links' = components
    /\ old_links' = links
    /\ op' = call
    /\ ret' = result
    /\ handles' = entitiesFound
    /\ UNCHANGED <<registry, old_registry, remaining, queue, old_queue>>
    /\ UNCHANGED propsVars

\* an EntityWorldMut of entity can be had, and the model has its component
Writable(entity) ==
    /\ op.name = "idle"
    /\ entity \in alive
    /\ DOMAIN links \subseteq {entity}

\* an EntityRef of entity can be had
Readable(entity) ==
    /\ op.name = "idle"
    /\ entity \in alive

\* entity.set_link(name, target)
SetLinkCall(entity, name, target) ==
    /\ Writable(entity)
    /\ LinksStep(EntityCall("set_link", entity, name, target), alive,
                 SetLink(links, entity, name, target), Unit, {})

\* entity.add_link(name, target)
AddLinkCall(entity, name, target) ==
    /\ Writable(entity)
    /\ LinksStep(EntityCall("add_link", entity, name, target), alive,
                 AddLink(links, entity, name, target), Unit, {})

\* entity.remove_link(name, target)
RemoveLinkCall(entity, name, target) ==
    /\ Writable(entity)
    /\ LinksStep(EntityCall("remove_link", entity, name, target), alive,
                 RemoveLink(links, entity, name, target), Unit, {})

\* entity.clear_links(name)
ClearLinksCall(entity, name) ==
    /\ Writable(entity)
    /\ LinksStep(EntityCall("clear_links", entity, name, NoEntity), alive,
                 ClearLinks(links, entity, name), Unit, {})

\* entity.get_linked(name)
GetLinkedCall(entity, name) ==
    /\ Readable(entity)
    /\ \E linked \in GetLinked(links, entity, name) :
          LinksStep(EntityCall("get_linked", entity, name, NoEntity), alive, links,
                    RetEntities("Option<Entity>", IsSome(linked)), OptionSet(linked))

\* entity.list_linked(name)
ListLinkedCall(entity, name) ==
    /\ Readable(entity)
    /\ LinksStep(EntityCall("list_linked", entity, name, NoEntity), alive, links,
                 RetEntities("EntityHashSet", TRUE), ListLinked(links, entity, name))

\* entity.is_linked(name, target)
IsLinkedCall(entity, name, target) ==
    /\ Readable(entity)
    /\ LinksStep(EntityCall("is_linked", entity, name, target), alive, links,
                 RetPrim("bool", IsLinked(links, entity, name, target)), {})

\* entity.follow_link(name)
FollowLinkCall(entity, name) ==
    /\ Readable(entity)
    /\ \E followed \in FollowLink(alive, links, entity, name) :
          LinksStep(EntityCall("follow_link", entity, name, NoEntity), alive, links,
                    RetEntities("Option<EntityWorldMut>", IsSome(followed)),
                    OptionSet(followed))

\* entity.explore_link(name)
ExploreLinkCall(entity, name) ==
    /\ Readable(entity)
    /\ LinksStep(EntityCall("explore_link", entity, name, NoEntity), alive, links,
                 RetEntities("EntityHashMap", TRUE),
                 ExploreLink(alive, links, entity, name))

\* world.despawn(entity): the entity and its components leave the world; no
\* other component is touched
Despawn(entity) ==
    /\ op.name = "idle"
    /\ entity \in alive
    /\ LinksStep(EntityCall("despawn", entity, NoKey, NoEntity), alive \ {entity},
                 [x \in (DOMAIN links) \ {entity} |-> links[x]], Unit, {})

NextLinks ==
    \/ \E entity \in Entities, name \in LinkNames, target \in Entities :
            SetLinkCall(entity, name, target)
    \/ \E entity \in Entities, name \in LinkNames, target \in Entities :
            AddLinkCall(entity, name, target)
    \/ \E entity \in Entities, name \in LinkNames, target \in Entities :
            RemoveLinkCall(entity, name, target)
    \/ \E entity \in Entities, name \in LinkNames : ClearLinksCall(entity, name)
    \/ \E entity \in Entities, name \in LinkNames : GetLinkedCall(entity, name)
    \/ \E entity \in Entities, name \in LinkNames : ListLinkedCall(entity, name)
    \/ \E entity \in Entities, name \in LinkNames, target \in Entities :
            IsLinkedCall(entity, name, target)
    \/ \E entity \in Entities, name \in LinkNames : FollowLinkCall(entity, name)
    \/ \E entity \in Entities, name \in LinkNames : ExploreLinkCall(entity, name)
    \/ \E entity \in Entities : Despawn(entity)
    \/ Return

SpecLinks == InitLinks /\ [][NextLinks]_vars

----------------------------------------------------------------------------
(* Operations on the Registry of a world.  The world starts with every     *)
(* entity handle spawned and no Registry resource.                         *)

InitRegistry ==
    /\ props = PropsNew
    /\ old_props = PropsNew
    /\ val = ValueDefault
    /\ old_val = ValueDefault
    /\ items = <<>>
    /\ old_items = None
    /\ op = Idle
    /\ ret = Unit
    /\ alive = Entities
    /\ old_alive = Entities
    /\ links = NoLinks
    /\ old_links = NoLinks
    /\ registry = None
    /\ old_registry = None
    /\ handles = {}
    /\ remaining = {}
    /\ queue = <<>>
    /\ old_queue = <<>>

RegistryStep(call, entities, resource, result, entitiesFound, entitiesLeft) ==
    /\ alive' = entities
    /\ old_alive' = alive
    /\ registry' = resource
    /\ old_registry' = registry
    /\ op' = call
    /\ ret' = result
    /\ handles' = entitiesFound
    /\ remaining' = entitiesLeft
    /\ UNCHANGED <<links, old_links, queue, old_queue>>
    /\ UNCHANGED propsVars

\* entity.set_name(name): the Identity component registers the entity
SetNameCall(entity, name) ==
    /\ op.name = "idle"
    /\ entity \in alive
    /\ RegistryStep(EntityCall("set_name", entity, name, NoEntity), alive,
                    Some(RegistrySetName(ResourceOrDefault(registry), name, entity)),
                    Unit, {}, {})

\* entity.set_class(class): the Class component registers the entity
SetClassCall(entity, class) ==
    /\ op.name = "idle"
    /\ entity \in alive
    /\ RegistryStep(EntityCall("set_class", entity, class, NoEntity), alive,
                    Some(RegistrySetClass(ResourceOrDefault(registry), class, entity)),
                    Unit, {}, {})

\* world.despawn(entity): the entity leaves the world; the Registry keeps
\* the handles it holds
DespawnRegistered(entity) ==
    /\ op.name = "idle"
    /\ entity \in alive
    /\ RegistryStep(EntityCall("despawn", entity, NoKey, NoEntity),
                    alive \ {entity}, registry, Unit, {}, {})

\* world.lookup_class(class)
LookupClassCall(class) ==
    /\ op.name = "idle"
    /\ RegistryStep(EntityCall("lookup_class", NoEntity, class, NoEntity),
                    alive, registry, RetEntities("EntityHashSet", TRUE),
                    LookupClass(registry, class), {})

\* the result of a lookup by name
RetFound(result) ==
    [Unit EXCEPT !.ty = "Result", !.some = (result[1] = "Ok"), !.tag = result[1]]

\* world.entity_named(name)
EntityNamedCall(name) ==
    LET result == EntityNamed(alive, registry, name, "EntityNotSpawned")
    IN  /\ op.name = "idle"
        /\ RegistryStep(EntityCall("entity_named", NoEntity, name, NoEntity),
                        alive, registry, RetFound(result),
                        {result[2]} \ {NoEntity}, {})

\* world.entity_mut_named(name), on World and on DeferredWorld
EntityMutNamedCall(name) ==
    LET result == EntityNamed(alive, registry, name, "EntityMutableFetchError")
    IN  /\ op.name = "idle"
        /\ RegistryStep(EntityCall("entity_mut_named", NoEntity, name, NoEntity),
                        alive, registry, RetFound(result),
                        {result[2]} \ {NoEntity}, {})

\* world.entity_class(class), world.entity_mut_class(class) and
\* deferred_world.entity_mut_class(class): the iterator over a clone of the
\* class set; remaining holds the handles it has yet to yield
ClassIterCall(iter, class) ==
    /\ op.name = "idle"
    /\ RegistryStep(EntityCall(iter, NoEntity, class, NoEntity), alive, registry,
                    RetEntities("Iterator", FALSE), {}, LookupClass(registry, class))

\* iterator.next(): the hash set yields any of its remaining handles;
\* handles collects the entities the iterator has yielded
ClassIterNextCall ==
    /\ op.name \in ClassIters
    /\ ret.ty # "panic"
    /\ IF remaining = {}
       THEN RegistryStep([op EXCEPT !.o = "next"], alive, registry,
                         RetEntities("Option", FALSE), handles, remaining)
       ELSE \E entity \in remaining :
              LET result == ClassIterNext(alive, entity)
              IN  RegistryStep([op EXCEPT !.o = "next", !.target = entity],
                               alive, registry,
                               RetEntities(IF result[1] = "panic" THEN "panic"
                                           ELSE "Option", result[1] = "Some"),
                               handles \cup ({result[2]} \ {NoEntity}),
                               remaining \ {entity})

NextRegistry ==
    \/ \E entity \in Entities, name \in RegNames : SetNameCall(entity, name)
    \/ \E entity \in Entities, class \in Classes : SetClassCall(entity, class)
    \/ \E entity \in Entities : DespawnRegistered(entity)
    \/ \E class \in Classes : LookupClassCall(class)
    \/ \E name \in RegNames : EntityNamedCall(name)
    \/ \E name \in RegNames : EntityMutNamedCall(name)
    \/ \E iter \in ClassIters, class \in Classes : ClassIterCall(iter, class)
    \/ ClassIterNextCall
    \/ Return

SpecRegistry == InitRegistry /\ [][NextRegistry]_vars

----------------------------------------------------------------------------
(* Link commands on an EntityCommands.  Each call queues a closure on the  *)
(* command queue of the world; the closures run, first queued first, when  *)
(* the queue is applied, each with the EntityWorldMut of its entity.  The  *)
(* queue holds the commands of one entity, which stays in the world; the   *)
(* world starts as for the link operations.                                *)

\* the link names the queued commands use
CommandNames == {<<1>>}

\* the closure queued by a link command: the call it makes on the
\* EntityWorldMut, with the name and target it captured
Closure(call, entity, name, target) == EntityCall(call, entity, name, target)

CommandsSetLink_QueuesAdd(commands, entity, name, target) ==
    Append(commands, Closure("add_link", entity, name, target))

\* EntityCommands::set_link(name, target)
CommandsSetLink(commands, entity, name, target) ==
    Append(commands, Closure("set_link", entity, name, target))

\* EntityCommands::add_link(name, target)
CommandsAddLink(commands, entity, name, target) ==
    Append(commands, Closure("add_link", entity, name, target))

\* EntityCommands::remove_link(name, target)
CommandsRemoveLink(commands, entity, name, target) ==
    Append(commands, Closure("remove_link", entity, name, target))

\* EntityCommands::clear_links(name)
CommandsClearLinks(commands, entity, name) ==
    Append(commands, Closure("clear_links", entity, name, NoEntity))

\* a queued closure runs: it makes its call on the EntityWorldMut
RunClosure(components, closure) ==
    CASE closure.name = "set_link" ->
            SetLink(components, closure.entity, closure.key, closure.target)
      [] closure.name = "add_link" ->
            AddLink(components, closure.entity, closure.key, closure.target)
      [] closure.name = "remove_link" ->
            RemoveLink(components, closure.entity, closure.key, closure.target)
      [] closure.name = "clear_links" ->
            ClearLinks(components, closure.entity, closure.key)

\* the queue is applied: the closures run in the order they were queued
RECURSIVE ApplyQueue(_, _)
ApplyQueue(components, commands) ==
    IF commands = <<>> THEN components
    ELSE ApplyQueue(RunClosure(components, Head(commands)), Tail(commands))

CommandsStep(call, components, commands) ==
    /\ links' = components
    /\ old_links' = links
    /\ queue' = commands
    /\ old_queue' = queue
    /\ op' = call
    /\ ret' = Unit
    /\ UNCHANGED <<alive, old_alive, registry, old_registry, handles, remaining>>
    /\ UNCHANGED propsVars

\* an EntityCommands of entity can be had, and the model has its queue and
\* its component
Queueable(entity) ==
    /\ op.name = "idle"
    /\ entity \in alive
    /\ DOMAIN links \subseteq {entity}
    /\ \A i \in 1..Len(queue) : queue[i].entity = entity
    /\ Len(queue) < MaxQueue

\* commands.entity(entity).set_link(name, target)
CommandsSetLinkCall(entity, name, target) ==
    /\ Queueable(entity)
    /\ CommandsStep(EntityCall("commands_set_link", entity, name, target), links,
                    CommandsSetLink(queue, entity, name, target))

\* commands.entity(entity).add_link(name, target)
CommandsAddLinkCall(entity, name, target) ==
    /\ Queueable(entity)
    /\ CommandsStep(EntityCall("commands_add_link", entity, name, target), links,
                    CommandsAddLink(queue, entity, name, target))

\* commands.entity(entity).remove_link(name, target)
CommandsRemoveLinkCall(entity, name, target) ==
    /\ Queueable(entity)
    /\ CommandsStep(EntityCall("commands_remove_link", entity, name, target), links,
                    CommandsRemoveLink(queue, entity, name, target))

\* commands.entity(entity).clear_links(name)
CommandsClearLinksCall(entity, name) ==
    /\ Queueable(entity)
    /\ CommandsStep(EntityCall("commands_clear_links", entity, name, NoEntity), links,
                    CommandsClearLinks(queue, entity, name))

\* world.flush(): the queued commands are applied and the queue is empty
ApplyCommands ==
    /\ op.name = "idle"
    /\ CommandsStep(EntityCall("apply", NoEntity, NoKey, NoEntity),
                    ApplyQueue(links, queue), <<>>)

NextCommands ==
    \/ \E entity \in Entities, name \in CommandNames, target \in Entities :
            CommandsSetLinkCall(entity, name, target)
    \/ \E entity \in Entities, name \in CommandNames, target \in Entities :
            CommandsAddLinkCall(entity, name, target)
    \/ \E entity \in Entities, name \in CommandNames, target \in Entities :
            CommandsRemoveLinkCall(entity, name, target)
    \/ \E entity \in Entities, name \in CommandNames :
            CommandsClearLinksCall(entity, name)
    \/ ApplyCommands
    \/ Return

SpecCommands == InitLinks /\ [][NextCommands]_vars

----------------------------------------------------------------------------
(* Vocabulary of the properties *)

\* the variant that holds a T
VariantOf(T) ==
    CASE T = "bool" -> "Bool"
      [] T = "f32" -> "Num"
      [] T = "Estr" -> "Str"

\* the payload of the active variant
Payload(v) ==
    CASE v.tag = "Bool" -> v.b
      [] v.tag = "Num" -> v.n
      [] v.tag = "Str" -> v.s

\* the zero value of T: false, 0.0, ""
ZeroOf(T) ==
    CASE T = "bool" -> FALSE
      [] T = "f32" -> Fin(0, 1)
      [] T = "Estr" -> <<>>

\* the same number: equal under ==, or NaN on both sides
SameNumber(a, b) == FEq(a, b) \/ (IsNaN(a) /\ IsNaN(b))

\* x == y for two primitives of type T
PrimEq(T, x, y) == IF T = "f32" THEN FEq(x, y) ELSE x = y

\* the slot k holds a value of variant T
Holds(m, k, T) == k \in DOMAIN m /\ m[k].tag = VariantOf(T)

\* the maps m1 and m2 agree on every key but k
SameElsewhere(m1, m2, k) ==
    /\ (DOMAIN m1) \ {k} = (DOMAIN m2) \ {k}
    /\ \A j \in (DOMAIN m1) \ {k} : m1[j] = m2[j]

----------------------------------------------------------------------------
(* Properties of Props *)

\* C1: get::<T>(name) returns the stored payload when the key is present and
\* holds variant T, and T's zero value when it is absent or holds another
\* variant; it always returns a T and leaves the map alone.
C1_GetReturnsPayloadOrZero ==
    op.name = "get" =>
        /\ ret = RetPrim(op.ty, IF Holds(props, op.key, op.ty)
                                THEN Payload(props[op.key]) ELSE ZeroOf(op.ty))
        /\ props = old_props

C1_Witness ==
    /\ op.name = "get"
    /\ op.ty = "f32"
    /\ Holds(props, op.key, "f32")
    /\ ret.n = One
    /\ \E j \in DOMAIN props : props[j].tag = "Str"

\* C2: get_mut::<T>(name) leaves the slot present and of variant T: unchanged
\* if it already held a T, holding T's zero value if it was absent or held
\* another variant (so that get::<T> then reads the zero value and a get of
\* any other type reads that type's zero value); every other key is unchanged.
C2_GetMutCoercesSlot ==
    op.name = "get_mut" =>
        LET k == op.key
            T == op.ty
        IN  /\ Holds(props, k, T)
            /\ IF Holds(old_props, k, T)
               THEN props[k] = old_props[k]
               ELSE /\ Payload(props[k]) = ZeroOf(T)
                    /\ \A U \in Types : PropsGet(props, k, U) = ZeroOf(U)
            /\ ret = RetPrim(T, Payload(props[k]))
            /\ SameElsewhere(props, old_props, k)

C2_Witness ==
    /\ op.name = "get_mut"
    /\ op.ty = "f32"
    /\ op.key \in DOMAIN old_props
    /\ old_props[op.key] = Bool(TRUE)
    /\ props[op.key] = Num(Zero)
    /\ PropsGet(props, op.key, "bool") = FALSE
    /\ DOMAIN props # {op.key}

\* the number the claim starts from: the old number at k, or 0 if k was
\* absent or held a Bool or Str
OldNumber(m, k) == IF Holds(m, k, "f32") THEN m[k].n ELSE Fin(0, 1)

\* C3: after props[k] += x (resp. -= x), get::<f32>(k) is n + x (resp. n - x),
\* where n is the old number at k, or 0 if k was absent or held a Bool or
\* Str; every other key is unchanged.
C3_IndexAssignAccumulates ==
    op.name = "index_op_assign" =>
        LET k == op.key
            x == op.x.n
            n == OldNumber(old_props, k)
        IN  /\ Holds(props, k, "f32")
            /\ SameNumber(PropsGet(props, k, "f32"),
                          IF op.o = "add" THEN FAdd(n, x) ELSE FSub(n, x))
            /\ SameElsewhere(props, old_props, k)

C3_Witness ==
    /\ op.name = "index_op_assign"
    /\ op.o = "sub"
    /\ op.x.n = One
    /\ Holds(old_props, op.key, "Estr")
    /\ props[op.key] = Num(Fin(-1, 1))

\* C4 (as claimed): props[k] == x holds exactly when get::<T>(k) == x, for
\* every primitive x of type T.
C4_IndexReadsLikeGet ==
    op.name = "index_eq" =>
        ret = RetPrim("bool", PrimEq(op.ty, PropsGet(props, op.key, op.ty),
                                     PrimGet(op.ty, op.x)))

----------------------------------------------------------------------------
(* Properties of Value *)

\* the type read from a variant
TypeOf(tag) ==
    CASE tag = "Bool" -> "bool"
      [] tag = "Num" -> "f32"
      [] tag = "Str" -> "Estr"

\* the numeric coercion of a Value: its number, or 0 for a Bool or Str
NumOf(v) == IF v.tag = "Num" THEN v.n ELSE Fin(0, 1)

\* partial_cmp of two primitives of type T
PrimCmp(T, x, y) ==
    CASE T = "bool" -> BoolPartialCmp(x, y)
      [] T = "f32" -> FPartialCmp(x, y)
      [] T = "Estr" -> EstrPartialCmp(x, y)

\* C5 (as claimed): with a Bool or Str operand w and a number x, x + w, x - w
\* and x / w are Num(x), x * w is Num(0), w + x is Num(x), w - x is Num(-x)
\* and w * x is Num(0); each mixed form gives what the Value-Value form gives
\* for Num(x).
C5_MixedFormsTreatNonNumAsZero ==
    /\ (op.name = "bin_f32_value" /\ val.tag # "Num") =>
          /\ ret = RetValue(CASE op.o = "add" -> Num(op.x.n)
                              [] op.o = "sub" -> Num(op.x.n)
                              [] op.o = "mul" -> Num(Fin(0, 1))
                              [] op.o = "div" -> Num(op.x.n))
          /\ ret = RetValue(ValueOpValue(op.o, Num(op.x.n), val))
    /\ (op.name = "bin_value_f32" /\ val.tag # "Num") =>
          /\ op.o = "add" => ret = RetValue(Num(op.x.n))
          /\ op.o = "sub" => ret = RetValue(Num(FNeg(op.x.n)))
          /\ op.o = "mul" => ret = RetValue(Num(Fin(0, 1)))
          /\ ret = RetValue(ValueOpValue(op.o, val, Num(op.x.n)))

\* C6: v op w is always a Num.  Both Num: the arithmetic result.  w not Num:
\* v + w, v - w and v / w are v's numeric coercion and v * w is 0.  Only v not
\* Num: v + w is w, v - w is -w, v * w and v / w are 0.
C6_ValueOpValueTable ==
    op.name = "bin_value_value" =>
        LET v == val
            w == op.w
            o == op.o
        IN  /\ ret.ty = "Value"
            /\ ret.tag = "Num"
            /\ ret.n =
                 CASE v.tag = "Num" /\ w.tag = "Num" ->
                        (CASE o = "add" -> FAdd(v.n, w.n)
                           [] o = "sub" -> FSub(v.n, w.n)
                           [] o = "mul" -> FMul(v.n, w.n)
                           [] o = "div" -> FDiv(v.n, w.n))
                   [] w.tag # "Num" ->
                        (IF o = "mul" THEN Fin(0, 1) ELSE NumOf(v))
                   [] OTHER ->
                        (CASE o = "add" -> w.n
                           [] o = "sub" -> FNeg(w.n)
                           [] o = "mul" -> Fin(0, 1)
                           [] o = "div" -> Fin(0, 1))

C6_Witness ==
    /\ op.name = "bin_value_value"
    /\ op.o = "div"
    /\ val = Num(Fin(2, 1))
    /\ op.w.tag = "Str"
    /\ ret = RetValue(Num(Fin(2, 1)))

\* C7: after v op= w, for a Value or a number w, v is v_old op w; hence v is
\* a Num afterwards whatever it was before.
C7_AssignAgreesWithBinary ==
    /\ op.name = "assign_value" =>
          /\ val = ValueOpValue(op.o, old_val, op.w)
          /\ val.tag = "Num"
    /\ op.name = "assign_f32" =>
          /\ val = ValueOpF32(op.o, old_val, op.x.n)
          /\ val.tag = "Num"

C7_Witness ==
    /\ op.name = "assign_value"
    /\ op.o = "add"
    /\ old_val.tag = "Str"
    /\ old_val.s # <<>>
    /\ op.w = Num(One)
    /\ val = Num(One)

\* C8: Option::<T>::from(v) is Some(payload) exactly when v's variant is T and
\* None otherwise; T::from(v) is the payload when the variant is T and T's
\* zero value otherwise; Value::from(x) converts back to x both ways.
C8_ConversionsNarrowByVariant ==
    /\ op.name = "into_option" =>
          ret = RetOption(op.ty, IF val.tag = VariantOf(op.ty)
                                 THEN <<Payload(val)>> ELSE <<>>)
    /\ op.name = "into" =>
          ret = RetPrim(op.ty, IF val.tag = VariantOf(op.ty)
                               THEN Payload(val) ELSE ZeroOf(op.ty))
    /\ op.name = "from" =>
          /\ RetOption(op.ty, OptionFrom(op.ty, val))
                = RetOption(op.ty, <<PrimGet(op.ty, op.x)>>)
          /\ RetPrim(op.ty, ValueInto(op.ty, val)) = RetPrim(op.ty, PrimGet(op.ty, op.x))

C8_Witness ==
    /\ op.name = "into_option"
    /\ op.ty = "bool"
    /\ val.tag = "Num"
    /\ val.n # Zero
    /\ ret.ty = "Option"
    /\ ~ret.some

\* C9: as_ref::<T> leaves the Value unchanged and reads the payload if the
\* variant is T, else T's zero value.  as_mut::<T> leaves the Value unchanged
\* when the variant is T and otherwise overwrites it with T's zero value; a
\* Str accessed as a mutable number and incremented by x ends as Num(x).
C9_ViewsReadOrOverwrite ==
    /\ op.name = "as_ref" =>
          /\ val = old_val
          /\ ret = RetPrim(op.ty, IF val.tag = VariantOf(op.ty)
                                  THEN Payload(val) ELSE ZeroOf(op.ty))
    /\ op.name = "as_mut" =>
          /\ val.tag = VariantOf(op.ty)
          /\ IF old_val.tag = VariantOf(op.ty)
             THEN val = old_val
             ELSE Payload(val) = ZeroOf(op.ty)
          /\ ret = RetPrim(op.ty, Payload(val))
    /\ op.name = "as_mut_add_assign" =>
          /\ val.tag = "Num"
          /\ val.n = FAdd(NumOf(old_val), op.x.n)

C9_Witness ==
    /\ op.name = "as_mut_add_assign"
    /\ old_val.tag = "Str"
    /\ old_val.s # <<>>
    /\ op.x.n = Fin(2, 1)
    /\ val = Num(Fin(2, 1))

\* C10: two Values of different variants, or a Value and a primitive of
\* another type in either order, are unequal and incomparable; within a
\* variant == and partial_cmp are those of the payloads, and a == b holds
\* exactly when partial_cmp(a, b) is Equal.
C10_ComparisonWithinVariant ==
    /\ op.name = "eq_value" =>
          /\ ret = RetPrim("bool", /\ val.tag = op.w.tag
                                   /\ PrimEq(TypeOf(val.tag), Payload(val), Payload(op.w)))
          /\ ret.b = (RetOrdering(ValuePartialCmp(val, op.w)).ord = "Equal")
    /\ op.name = "cmp_value" =>
          /\ ret = RetOrdering(IF val.tag = op.w.tag
                               THEN PrimCmp(TypeOf(val.tag), Payload(val), Payload(op.w))
                               ELSE <<>>)
          /\ (ret.ord = "Equal") = ValueEq(val, op.w)
    /\ op.name \in {"eq_prim", "prim_eq"} =>
          ret = RetPrim("bool", /\ val.tag = VariantOf(op.ty)
                                /\ PrimEq(op.ty, Payload(val), PrimGet(op.ty, op.x)))
    /\ op.name = "cmp_prim" =>
          ret = RetOrdering(IF val.tag = VariantOf(op.ty)
                            THEN PrimCmp(op.ty, Payload(val), PrimGet(op.ty, op.x))
                            ELSE <<>>)
    /\ op.name = "prim_cmp" =>
          ret = RetOrdering(IF val.tag = VariantOf(op.ty)
                            THEN PrimCmp(op.ty, PrimGet(op.ty, op.x), Payload(val))
                            ELSE <<>>)

C10_Witness ==
    /\ op.name = "cmp_value"
    /\ val.tag = "Num"
    /\ op.w.tag = "Str"
    /\ ret.ty = "Ordering"
    /\ ~ret.some

\* a Num holding NaN
IsNumNaN(v) == v.tag = "Num" /\ IsNaN(v.n)

\* C11: a Num holding NaN equals nothing, itself included: == with any Value
\* or primitive on either side is false, and partial_cmp of two NaN Nums is
\* None; so v == v fails for v = Num(NaN).
C11_NaNEqualsNothing ==
    /\ (op.name = "eq_value" /\ (IsNumNaN(val) \/ IsNumNaN(op.w))) =>
          ret = RetPrim("bool", FALSE)
    /\ (op.name \in {"eq_prim", "prim_eq"} /\ IsNumNaN(val)) =>
          ret = RetPrim("bool", FALSE)
    /\ (op.name = "cmp_value" /\ IsNumNaN(val) /\ IsNumNaN(op.w)) =>
          ret = RetOrdering(<<>>)

C11_Witness ==
    /\ op.name = "eq_value"
    /\ IsNumNaN(val)
    /\ IsNumNaN(op.w)
    /\ ret.ty = "bool"
    /\ ~ret.b

----------------------------------------------------------------------------
(* Properties of Props: set, iteration, deletion *)

\* C12: set(k, x) (and with(k, x)) overwrites the slot k whatever it held:
\* afterwards the slot holds x's variant and get of x's type returns x; every
\* other key keeps its value; and the same set made again changes nothing.
C12_SetOverwrites ==
    op.name \in {"set", "with"} =>
        LET k == op.key
            T == op.ty
            x == PrimGet(op.ty, op.x)
        IN  /\ Holds(props, k, T)
            /\ PropsGet(props, k, T) = x
            /\ SameElsewhere(props, old_props, k)
            /\ (Holds(old_props, k, T) /\ Payload(old_props[k]) = x)
                  => props = old_props
            /\ PropsSet(props, k, ValueFrom(T, x)) = props

C12_Witness ==
    /\ op.name = "set"
    /\ op.ty = "f32"
    /\ op.x.n = One
    /\ Holds(old_props, op.key, "Estr")
    /\ props[op.key].tag = "Num"
    /\ DOMAIN props # {op.key}

\* the keys of S in strictly ascending order
Ascending(S) ==
    CHOOSE ks \in [1..Cardinality(S) -> S] :
        /\ {ks[i] : i \in 1..Cardinality(S)} = S
        /\ \A i \in 1..(Cardinality(S) - 1) : StrCmp(ks[i], ks[i + 1]) = "Less"

\* C13: iter() yields every present key exactly once, in ascending key
\* order, each with its current value; keys() and values() yield the keys
\* and the values of that sequence; a second iter() with no mutation in
\* between yields the same sequence, and keys() and values() made while the
\* sequence of an iter() is held are its projections.
C13_IterationInKeyOrder ==
    LET ks == Ascending(DOMAIN props)
        n == Cardinality(DOMAIN props)
    IN  /\ op.name = "iter" =>
              /\ items = [i \in 1..n |-> <<ks[i], props[ks[i]]>>]
              /\ IsSome(old_items) => items = old_items[1]
        /\ op.name = "keys" =>
              /\ items = [i \in 1..n |-> ks[i]]
              /\ IsSome(old_items) =>
                    items = [i \in 1..Len(old_items[1]) |-> old_items[1][i][1]]
        /\ op.name = "values" =>
              /\ items = [i \in 1..n |-> props[ks[i]]]
              /\ IsSome(old_items) =>
                    items = [i \in 1..Len(old_items[1]) |-> old_items[1][i][2]]

C13_Witness ==
    /\ op.name = "iter"
    /\ IsSome(old_items)
    /\ Len(items) = 2
    /\ StrCmp(items[1][1], items[2][1]) = "Less"
    /\ items[1][2].tag = "Str"
    /\ items[2][2].tag = "Bool"

\* the key k is gone: every get reads the zero value, no iteration yields
\* it, and a get_mut starts again from the zero value
Deleted(m, k) ==
    /\ \A T \in Types : PropsGet(m, k, T) = ZeroOf(T)
    /\ \A i \in 1..Len(PropsIter(m)) : PropsIter(m)[i][1] # k
    /\ \A i \in 1..Len(PropsKeys(m)) : PropsKeys(m)[i] # k
    /\ \A T \in Types : PropsGetMut(m, k, T)[k] = ValueFrom(T, ZeroOf(T))

\* C14: remove(k) deletes the slot k only, and changes nothing when k is
\* absent; clear() deletes every slot; a deleted key reads as the zero value
\* of every type, is not iterated, and get_mut of it starts from the zero
\* value.
C14_RemoveAndClearDelete ==
    /\ op.name = "remove" =>
          /\ op.key \notin DOMAIN props
          /\ SameElsewhere(props, old_props, op.key)
          /\ op.key \notin DOMAIN old_props => props = old_props
          /\ Deleted(props, op.key)
    /\ op.name = "clear" =>
          /\ DOMAIN props = {}
          /\ \A k \in Keys : Deleted(props, k)

C14_Witness ==
    /\ op.name = "remove"
    /\ Holds(old_props, op.key, "f32")
    /\ old_props[op.key].n = One
    /\ op.key \notin DOMAIN props
    /\ DOMAIN props # {}

----------------------------------------------------------------------------
(* Properties of Links *)

\* the link calls that leave the Links of every entity as they are
LinkReads ==
    {"get_linked", "list_linked", "is_linked", "follow_link", "explore_link"}

\* list(name) is the same in both components for every name but `name`
SameOtherLinks(c1, c2, entity, name) ==
    \A other \in LinkNames \ {name} :
        ListLinked(c1, entity, other) = ListLinked(c2, entity, other)

\* C15: after set(name, t), list(name) is exactly {t}, whatever was set or
\* added under name before; after add(name, t), list(name) is the previous
\* set with t added; neither changes the set under any other name.
C15_SetOverwritesAddUnions ==
    /\ op.name = "set_link" =>
          /\ ListLinked(links, op.entity, op.key) = {op.target}
          /\ SameOtherLinks(links, old_links, op.entity, op.key)
    /\ op.name = "add_link" =>
          /\ ListLinked(links, op.entity, op.key)
                = ListLinked(old_links, op.entity, op.key) \cup {op.target}
          /\ SameOtherLinks(links, old_links, op.entity, op.key)

C15_Witness ==
    /\ op.name = "set_link"
    /\ Cardinality(ListLinked(old_links, op.entity, op.key)) = 2
    /\ ListLinked(links, op.entity, op.key) = {op.target}
    /\ \E other \in LinkNames \ {op.key} :
          ListLinked(links, op.entity, other) # {}

\* C17: despawning an entity changes the Links of no other entity, so a
\* link to it stays: is_linked stays true and list keeps the handle, through
\* every call but a set, remove or clear; the reading calls change no Links.
\* follow_link returns an entity only if it is a linked target that is in
\* the world, and None when no linked target is in the world.
C17_StaleTargetsKept ==
    /\ op.name = "despawn" =>
          \A entity \in (DOMAIN old_links) \ {op.entity} :
              /\ entity \in DOMAIN links
              /\ links[entity] = old_links[entity]
              /\ \A name \in LinkNames :
                    /\ IsLinked(old_links, entity, name, op.entity)
                          => IsLinked(links, entity, name, op.entity)
                    /\ op.entity \in ListLinked(old_links, entity, name)
                          => op.entity \in ListLinked(links, entity, name)
    /\ op.name \in LinkReads => links = old_links
    /\ op.name \notin {"set_link", "remove_link", "clear_links"} =>
          \A entity \in alive, name \in LinkNames, target \in Entities :
              IsLinked(old_links, entity, name, target)
                => /\ IsLinked(links, entity, name, target)
                   /\ target \in ListLinked(links, entity, name)
    /\ op.name = "follow_link" =>
          LET targets == ListLinked(links, op.entity, op.key)
          IN  /\ ret.some => /\ Cardinality(handles) = 1
                             /\ handles \subseteq targets \cap alive
              /\ ~ret.some => /\ handles = {}
                              /\ targets = {} \/ targets \ alive # {}
              /\ targets \cap alive = {} => ~ret.some

C17_Witness ==
    /\ op.name = "follow_link"
    /\ ~ret.some
    /\ ListLinked(links, op.entity, op.key) # {}
    /\ ListLinked(links, op.entity, op.key) \cap alive = {}
    /\ \E target \in Entities \ alive : IsLinked(links, op.entity, op.key, target)

\* C19: is_linked(name, e) is true exactly when e is in list(name); get(name)
\* is None exactly when list(name) is empty and otherwise a member of
\* list(name); remove and clear on a name without an entry change the answer
\* of no reader.
C19_ReadersAgree ==
    /\ op.name = "is_linked" =>
          ret = RetPrim("bool", op.target \in ListLinked(links, op.entity, op.key))
    /\ op.name = "get_linked" =>
          /\ ~ret.some <=> ListLinked(links, op.entity, op.key) = {}
          /\ ret.some => /\ Cardinality(handles) = 1
                         /\ handles \subseteq ListLinked(links, op.entity, op.key)
    /\ op.name = "list_linked" =>
          handles = {target \in Entities :
                        IsLinked(links, op.entity, op.key, target)}
    /\ (/\ op.name \in {"remove_link", "clear_links"}
        /\ (op.entity \in DOMAIN old_links => op.key \notin DOMAIN old_links[op.entity]))
          => \A name \in LinkNames :
                /\ ListLinked(links, op.entity, name)
                      = ListLinked(old_links, op.entity, name)
                /\ GetLinked(links, op.entity, name)
                      = GetLinked(old_links, op.entity, name)
                /\ \A target \in Entities :
                      IsLinked(links, op.entity, name, target)
                        = IsLinked(old_links, op.entity, name, target)

C19_Witness ==
    /\ op.name = "get_linked"
    /\ ~ret.some
    /\ op.entity \in DOMAIN links
    /\ op.key \in DOMAIN links[op.entity]
    /\ \E other \in LinkNames : ListLinked(links, op.entity, other) # {}

\* C20: explore_link(name) returns one entry per linked handle when every
\* handle of list_linked(name) is in the world, and the empty map when one
\* of them is not, or when the entity has no Links or no link under name.
C20_ExploreAllOrNothing ==
    op.name = "explore_link" =>
        LET targets == ListLinked(links, op.entity, op.key)
        IN  /\ targets \subseteq alive => handles = targets
            /\ targets \ alive # {} => handles = {}
            /\ op.entity \notin DOMAIN links => handles = {}

C20_Witness ==
    /\ op.name = "explore_link"
    /\ handles = {}
    /\ ListLinked(links, op.entity, op.key) \cap alive # {}
    /\ ListLinked(links, op.entity, op.key) \ alive # {}

----------------------------------------------------------------------------
(* Properties of the Registry lookups *)

\* C16: entity_named(name) and entity_mut_named(name) return the 'not
\* found' error when the world has no Registry or the name is not
\* registered, the 'not spawned' (resp. 'fetch') error when the name is
\* registered to a handle whose entity is not in the world, and otherwise
\* exactly the registered entity; the lookup changes nothing in the world.
C16_NamedLookupTypedErrors ==
    op.name \in {"entity_named", "entity_mut_named"} =>
        LET registered == IsSome(registry) /\ op.key \in DOMAIN registry[1].names
            fetchError == IF op.name = "entity_named" THEN "EntityNotSpawned"
                          ELSE "EntityMutableFetchError"
        IN  /\ ~registered =>
                  /\ ~ret.some
                  /\ ret.tag = "EntityNotFound"
                  /\ handles = {}
            /\ (registered /\ registry[1].names[op.key] \notin alive) =>
                  /\ ~ret.some
                  /\ ret.tag = fetchError
                  /\ handles = {}
            /\ (registered /\ registry[1].names[op.key] \in alive) =>
                  /\ ret.some
                  /\ ret.tag = "Ok"
                  /\ handles = {registry[1].names[op.key]}
            /\ alive = old_alive
            /\ registry = old_registry
            /\ links = old_links

C16_Witness ==
    /\ op.name = "entity_named"
    /\ IsSome(registry)
    /\ op.key \in DOMAIN registry[1].names
    /\ registry[1].names[op.key] \notin alive
    /\ alive # {}
    /\ ret.tag = "EntityNotSpawned"

\* C18 (as claimed): iterating entity_class(class) or entity_mut_class(class)
\* never aborts, also when the class set holds a handle whose entity is no
\* longer in the world; lookup_class on a world without a Registry returns
\* the empty set.
C18_LookupsNeverAbort ==
    /\ ret.ty # "panic"
    /\ (op.name = "lookup_class" /\ ~IsSome(registry)) => handles = {}

----------------------------------------------------------------------------
(* Properties of the link commands on an EntityCommands *)

\* the calls that queue a link command, and the call each one defers
QueueCalls ==
    {"commands_set_link", "commands_add_link", "commands_remove_link",
     "commands_clear_links"}

Deferred(call) ==
    CASE call = "commands_set_link" -> "set_link"
      [] call = "commands_add_link" -> "add_link"
      [] call = "commands_remove_link" -> "remove_link"
      [] call = "commands_clear_links" -> "clear_links"

\* the Links left by making the calls directly on the entity, one after the
\* other in the order of the sequence
RECURSIVE DirectCalls(_, _)
DirectCalls(components, calls) ==
    IF calls = <<>> THEN components
    ELSE LET before == DirectCalls(components, SubSeq(calls, 1, Len(calls) - 1))
             last == calls[Len(calls)]
         IN  CASE last.name = "set_link" ->
                    SetLink(before, last.entity, last.key, last.target)
               [] last.name = "add_link" ->
                    AddLink(before, last.entity, last.key, last.target)
               [] last.name = "remove_link" ->
                    RemoveLink(before, last.entity, last.key, last.target)
               [] last.name = "clear_links" ->
                    ClearLinks(before, last.entity, last.key)

\* the last two commands of a queue are first then second, on one link name
EndsWith(commands, first, second) ==
    /\ Len(commands) >= 2
    /\ commands[Len(commands) - 1].name = first
    /\ commands[Len(commands)].name = second
    /\ commands[Len(commands) - 1].key = commands[Len(commands)].key

\* C21: a link command on an EntityCommands leaves the Links of the world
\* as they are and adds its call at the end of the queue; applying the
\* queue empties it and leaves the Links that the queued calls leave when
\* made directly on the entity in the order they were queued, with a Links
\* component on the entity also when it had none: queued add_link(n, a)
\* then set_link(n, b) ends with list_linked(n) = {b}, and set_link(n, b)
\* then add_link(n, a) ends with {a, b}.
C21_QueuedLinkCommands ==
    /\ op.name \in QueueCalls =>
          /\ links = old_links
          /\ Len(queue) = Len(old_queue) + 1
          /\ SubSeq(queue, 1, Len(old_queue)) = old_queue
          /\ queue[Len(queue)].name = Deferred(op.name)
          /\ queue[Len(queue)].entity = op.entity
          /\ queue[Len(queue)].key = op.key
          /\ queue[Len(queue)].target = op.target
    /\ op.name = "apply" =>
          /\ queue = <<>>
          /\ links = DirectCalls(old_links, old_queue)
          /\ old_queue # <<>> => old_queue[1].entity \in DOMAIN links
          /\ EndsWith(old_queue, "add_link", "set_link") =>
                LET last == old_queue[Len(old_queue)]
                IN  ListLinked(links, last.entity, last.key) = {last.target}
          /\ EndsWith(old_queue, "set_link", "add_link") =>
                LET last == old_queue[Len(old_queue)]
                    first == old_queue[Len(old_queue) - 1]
                IN  ListLinked(links, last.entity, last.key) =
                        {first.target, last.target}

C21_Witness ==
    /\ op.name = "apply"
    /\ old_links = NoLinks
    /\ EndsWith(old_queue, "add_link", "set_link")
    /\ old_queue[Len(old_queue) - 1].target # old_queue[Len(old_queue)].target
    /\ ListLinked(links, old_queue[1].entity, old_queue[1].key) =
            {old_queue[Len(old_queue)].target}

====
